---- MODULE Spec2Model ----
(***************************************************************************)
(* Alignment and segment-reconciliation engine of Audio_to_Video_Maker.    *)
(*                                                                         *)
(* Each component is modelled under its own specification:                 *)
(*   SpecCTC       _ctc_forced_align                (src/nemo_align.py)    *)
(*   SpecSanitize  _reattach_word_timestamps and                           *)
(*                 _sanitize_word_timestamps        (src/text_refinery.py) *)
(*   SpecExpand    the repetition expander of align_and_split_lyrics and   *)
(*                 detect_chorus_repetitions        (src/gemini_align.py)  *)
(*   SpecClamp     _clamp_words and the inline clamping loops              *)
(*                                                  (src/gemini_align.py)  *)
(*   SpecLines     align_with_nemo from the character runs on, with        *)
(*                 _map_words_to_lines              (src/nemo_align.py)    *)
(*   SpecExpandOrder  the expander on two segments  (src/gemini_align.py)  *)
(*   SpecFullPipeline the segment construction of full_pipeline_gemini     *)
(*                                                  (src/gemini_align.py)  *)
(*   SpecPipeline  main, the two command lines and the backend loops of    *)
(*                 the five oracle-backed operations                       *)
(*                 (src/main.py, src/gemini_align.py, src/text_refinery.py)*)
(*   SpecPipelineLive  the same, every enabled step eventually taken       *)
(*   SpecBatch     process_single_song run by two concurrent workers, with *)
(*                 the lock file, lyrics.json and video/public             *)
(*                 (src/batch_processor.py, src/main.py)                   *)
(*                                                                         *)
(* Times are exact decimals counted in milliseconds; round(x, 2) is the    *)
(* rounding of a rational to the nearest multiple of 10 ms, ties to even.  *)
(* Log-probabilities are small non-positive integers.  The float64         *)
(* sentinel -1e30 absorbs every log-probability added to it                *)
(* (-1e30 + x = -1e30 for |x| < 7e13); AddLogProb keeps that behaviour.    *)
(***************************************************************************)
EXTENDS Integers, Sequences, FiniteSets, TLC

VARIABLES
    \* _ctc_forced_align
    log_probs,      \* T x C matrix: frame -> symbol -> score
    targets,        \* target token indices, 0-based
    path,           \* backtracked state path, frame -> expanded state
    alignments,     \* returned list of (token_idx, start_frame, end_frame)
    ctc_pc,         \* "idle" | "call" | "returned"
    \* _sanitize_word_timestamps / _reattach_word_timestamps
    raw_segments,   \* the transcription's segments, each a list of words
    lyrics_in,      \* the segment list as handed in
    lyrics,         \* the segment list, sanitized in place
    first_pass,     \* the list as returned by the first sanitizer pass
    san_pc,         \* "idle" | "reattach" | "sanitize" | "unsanitized" | "once" | "twice"
    \* repetition expander
    lyrics_segments, \* the segment list handed to the expander
    data,           \* the oracle's parsed response, a list of items
    expanded,       \* the emitted segments
    exp_pc,         \* "idle" | "call" | "split" | "chorus" | "kept"
    \* word clamping
    window,         \* the segment window the words are clamped into
    gemini_words,   \* the oracle's words
    clamped,        \* the clamped words
    clamp_pc,       \* "idle" | "call" | "clamp_words" | "align_lyrics" | "full_pipeline"
    \* align_with_nemo, steps 5-8, and _map_words_to_lines
    original_lines, \* the lyric lines, each a list of whitespace-separated tokens
    vocab,          \* the characters of the acoustic model's vocabulary
    frame_duration, \* seconds per frame, in microseconds
    char_alignments, \* the (token_idx, start_frame, end_frame) list of the aligner
    aligned_words,  \* all_words of align_with_nemo: the words grouped from the character times
    segments,       \* the returned segment list
    nemo_pc,        \* "idle" | "call" | "none" | "returned"
    \* full_pipeline_gemini, from the parsed response on
    audio_duration, \* length of the audio, rounded to 2 decimals
    total_lines,    \* number of ground-truth lines
    pipeline_data,  \* the oracle's parsed response, a list of items
    pipeline_segments, \* the returned segment list
    pipeline_pc,    \* "idle" | "call" | "rejected" | "returned"
    \* main, the command lines of nemo_align and gemini_align, and the
    \* oracle-backed operations they call
    entry,          \* "idle" | "main" | "nemo_cli" | "align_cli"
    ground_truth,   \* main: ground_truth_text is given
    skip_isolation, \* main: skip_isolation is set
    api_key,        \* an API key is configured
    audio_exists,   \* the audio file is there
    main_pc,        \* position in the entry point
    op,             \* the oracle-backed operation being called, "none" before the first
    model_idx,      \* 1-based index of the backend the loop tries next
    tried,          \* the network attempts of this call: backend and response
    op_result,      \* "none" | "pending" | "accepted" | "fallback" | "blocked"
    stages,         \* the stages the candidate segment list has gone through
    lyrics_file,    \* the stages of the list last written to lyrics.json, <<>> if none
    \* process_single_song run by concurrent workers, and the files they share
    song_name,      \* worker -> the song it was handed
    worker_pc,      \* worker -> its position in process_single_song
    saves_left,     \* worker -> how often main still writes lyrics.json
    lock_file,      \* song -> the worker that wrote output_song/<song>/.processing, "none" if absent
    lock_stale,     \* song -> the lock file is older than 30 minutes
    lyrics_json,    \* song -> "absent" | "truncated" | "partial" | "complete"
    public_dir,     \* the song whose audio and lyrics are in video/public, "none" at first
    video_output    \* song -> the song whose assets its video was rendered from, "none" if not rendered

ctcVars == <<log_probs, targets, path, alignments, ctc_pc>>
sanVars == <<raw_segments, lyrics_in, lyrics, first_pass, san_pc>>
expVars == <<lyrics_segments, data, expanded, exp_pc>>
clampVars == <<window, gemini_words, clamped, clamp_pc>>
lineVars == <<original_lines, vocab, frame_duration, char_alignments, aligned_words, segments, nemo_pc>>
fullVars == <<audio_duration, total_lines, pipeline_data, pipeline_segments, pipeline_pc>>
opVars == <<op, model_idx, tried, op_result>>
mainVars == <<entry, ground_truth, skip_isolation, api_key, audio_exists, main_pc, stages, lyrics_file>>
batchVars == <<song_name, worker_pc, saves_left, lock_file, lock_stale, lyrics_json, public_dir, video_output>>
restVars == <<lineVars, fullVars, opVars, mainVars, batchVars>>
vars == <<ctcVars, sanVars, expVars, clampVars, restVars>>

----------------------------------------------------------------------------
(* Generic helpers *)

SetMax(S) == CHOOSE x \in S : \A y \in S : y <= x

SetMin(S) == CHOOSE x \in S : \A y \in S : x <= y

Max2(a, b) == IF a >= b THEN a ELSE b

Min2(a, b) == IF a <= b THEN a ELSE b

----------------------------------------------------------------------------
(* _ctc_forced_align: src/nemo_align.py 56-154 *)

MaxT == 5           \* frames
MaxS == 2           \* target tokens
NumTokens == 2      \* vocabulary size; the blank is the last index
MaxPenalty == 1     \* scores range over -MaxPenalty..0

NEG_INF == -1000000

NoToken == -1       \* current_token_state = None

blank_id == NumTokens

Symbols == 0..NumTokens

\* A frame either favours one symbol by p or is flat.
FrameRows == {[c \in Symbols |-> IF c = k THEN 0 ELSE 0 - p] : k \in Symbols, p \in 0..MaxPenalty}

NumFrames(lp) == Cardinality(DOMAIN lp)

NumTargets(tg) == Cardinality(DOMAIN tg)

\* expanded = [blank, t0, blank, t1, ..., blank]   (lines 76-80)
ExpandedTargets(tg) == [s \in 0..(2 * NumTargets(tg)) |-> IF s % 2 = 1 THEN tg[s \div 2] ELSE blank_id]

\* score + log_probs[t][expanded[s]] in float64: the sentinel absorbs the addend
AddLogProb(score, x) == IF score = NEG_INF THEN NEG_INF ELSE score + x

\* mutant: the skip is offered whatever the tokens at s and s-2
SkipAllowed_Always(ex, s) == s > 1

\* the skip transition from s-2 is offered (lines 102, 121)
SkipAllowed(ex, s) == s > 1 /\ ex[s] # ex[s - 2]

\* alpha[0] (lines 84-89)
AlphaInit(lp, ex) ==
    LET L == Cardinality(DOMAIN ex)
    IN [s \in 0..(L - 1) |->
           IF s = 0 \/ (s = 1 /\ L > 1) THEN lp[0][ex[s]] ELSE NEG_INF]

\* mutant: the recurrence forgets the skip transition
AlphaStep_NoSkip(prev, lp, ex, t) ==
    [s \in DOMAIN ex |->
        LET stay == prev[s]
            adv  == IF s > 0 THEN Max2(stay, prev[s - 1]) ELSE stay
        IN AddLogProb(adv, lp[t][ex[s]])]

\* alpha[t] from alpha[t-1] (lines 93-105)
AlphaStep(prev, lp, ex, t) ==
    [s \in DOMAIN ex |->
        LET stay == prev[s]
            adv  == IF s > 0 THEN Max2(stay, prev[s - 1]) ELSE stay
            skip == IF SkipAllowed(ex, s) THEN Max2(adv, prev[s - 2]) ELSE adv
        IN AddLogProb(skip, lp[t][ex[s]])]

RECURSIVE AlphaRows(_, _, _)
\* the rows alpha[0..t] as a sequence (row t is element t+1)
AlphaRows(lp, ex, t) ==
    IF t = 0 THEN <<AlphaInit(lp, ex)>>
    ELSE LET rows == AlphaRows(lp, ex, t - 1)
         IN Append(rows, AlphaStep(rows[t], lp, ex, t))

\* mutant: ties go to the last token state instead of the final blank
BestS_Strict(last, L) == IF last[L - 1] > last[L - 2] THEN L - 1 ELSE L - 2

\* terminal state (lines 109-112)
BestS(last, L) == IF last[L - 1] >= last[L - 2] THEN L - 1 ELSE L - 2

\* mutant: backtracking offers the skip whatever the tokens at s and s-2
BackStep_SkipAlways(row, ex, s) ==
    LET c1 == s > 0
        c2 == s > 1
        m1 == IF c1 THEN Max2(row[s], row[s - 1]) ELSE row[s]
        m  == IF c2 THEN Max2(m1, row[s - 2]) ELSE m1
    IN IF row[s] = m THEN s
       ELSE IF c1 /\ row[s - 1] = m THEN s - 1
       ELSE s - 2

\* one backtracking step: max(candidates, key=score) keeps the first maximum
\* of [(alpha[t][s], s), (alpha[t][s-1], s-1), (alpha[t][s-2], s-2)]  (lines 117-124)
BackStep(row, ex, s) ==
    LET c1 == s > 0
        c2 == SkipAllowed(ex, s)
        m1 == IF c1 THEN Max2(row[s], row[s - 1]) ELSE row[s]
        m  == IF c2 THEN Max2(m1, row[s - 2]) ELSE m1
    IN IF row[s] = m THEN s
       ELSE IF c1 /\ row[s - 1] = m THEN s - 1
       ELSE s - 2

RECURSIVE BackPath(_, _, _, _)
\* path[t..T-1] given path[t+1..T-1]  (lines 115-126)
BackPath(rows, ex, t, suffix) ==
    IF t < 0 THEN suffix
    ELSE LET s == BackStep(rows[t + 1], ex, suffix[t + 1])
         IN BackPath(rows, ex, t - 1, [u \in t..SetMax(DOMAIN suffix) |-> IF u = t THEN s ELSE suffix[u]])

CtcPath(lp, tg) ==
    LET ex == ExpandedTargets(tg)
        T  == NumFrames(lp)
        L  == Cardinality(DOMAIN ex)
        rows == AlphaRows(lp, ex, T - 1)
        best == BestS(rows[T], L)
    IN BackPath(rows, ex, T - 2, [u \in {T - 1} |-> best])

Entry(idx, sf, ef) == [token_idx |-> idx, start_frame |-> sf, end_frame |-> ef]

\* mutant: a token is closed on the current frame instead of the previous one
ExtractStep_InclusiveEnd(st, t, s) ==
    LET open == st.current # NoToken /\ st.current % 2 = 1
        closed == IF open THEN Append(st.out, Entry(st.current \div 2, st.start, t)) ELSE st.out
    IN IF s % 2 = 1
       THEN IF st.current # s
            THEN [out |-> closed, current |-> s, start |-> t]
            ELSE st
       ELSE IF open
            THEN [out |-> closed, current |-> s, start |-> st.start]
            ELSE st

\* one iteration of the extraction loop (lines 133-147)
ExtractStep(st, t, s) ==
    LET open == st.current # NoToken /\ st.current % 2 = 1
        closed == IF open THEN Append(st.out, Entry(st.current \div 2, st.start, t - 1)) ELSE st.out
    IN IF s % 2 = 1
       THEN IF st.current # s
            THEN [out |-> closed, current |-> s, start |-> t]
            ELSE st
       ELSE IF open
            THEN [out |-> closed, current |-> s, start |-> st.start]
            ELSE st

RECURSIVE ExtractLoop(_, _)
ExtractLoop(p, t) ==
    IF t < 0 THEN [out |-> <<>>, current |-> NoToken, start |-> 0]
    ELSE ExtractStep(ExtractLoop(p, t - 1), t, p[t])

\* alignments of a path, closing the last token (lines 128-154)
ExtractAlignments(p) ==
    LET T == Cardinality(DOMAIN p)
        st == ExtractLoop(p, T - 1)
    IN IF st.current # NoToken /\ st.current % 2 = 1
       THEN Append(st.out, Entry(st.current \div 2, st.start, T - 1))
       ELSE st.out

IdleSan == raw_segments = <<>> /\ lyrics_in = <<>> /\ lyrics = <<>> /\ first_pass = <<>> /\ san_pc = "idle"

IdleExp == lyrics_segments = <<>> /\ data = <<>> /\ expanded = <<>> /\ exp_pc = "idle"

IdleClamp == window = <<>> /\ gemini_words = <<>> /\ clamped = <<>> /\ clamp_pc = "idle"

IdleLines ==
    /\ original_lines = <<>> /\ vocab = {} /\ frame_duration = 0 /\ char_alignments = <<>>
    /\ aligned_words = <<>> /\ segments = <<>> /\ nemo_pc = "idle"

IdleFull ==
    /\ audio_duration = 0 /\ total_lines = 0 /\ pipeline_data = <<>>
    /\ pipeline_segments = <<>> /\ pipeline_pc = "idle"

IdleMain ==
    /\ entry = "idle" /\ ground_truth = FALSE /\ skip_isolation = FALSE /\ api_key = FALSE
    /\ audio_exists = FALSE /\ main_pc = "idle" /\ stages = <<>> /\ lyrics_file = <<>>
    /\ op = "none" /\ model_idx = 0 /\ tried = <<>> /\ op_result = "none"

IdleBatch ==
    /\ song_name = <<>> /\ worker_pc = <<>> /\ saves_left = <<>> /\ lock_file = <<>> /\ lock_stale = <<>>
    /\ lyrics_json = <<>> /\ public_dir = "none" /\ video_output = <<>>

IdleRest == IdleLines /\ IdleFull /\ IdleMain /\ IdleBatch

IdleCtc == log_probs = <<>> /\ targets = <<>> /\ path = <<>> /\ alignments = <<>> /\ ctc_pc = "idle"

InitCTC ==
    /\ \E T \in 1..MaxT : log_probs \in [0..(T - 1) -> FrameRows]
    /\ \E S \in 0..MaxS : targets \in [0..(S - 1) -> 0..(NumTokens - 1)]
    /\ path = <<>>
    /\ alignments = <<>>
    /\ ctc_pc = "call"
    /\ IdleSan /\ IdleExp /\ IdleClamp /\ IdleRest

\* _ctc_forced_align(log_probs, targets, blank_id)
CtcForcedAlign ==
    /\ ctc_pc = "call"
    /\ IF NumTargets(targets) = 0
       THEN path' = <<>> /\ alignments' = <<>>
       ELSE /\ path' = CtcPath(log_probs, targets)
            /\ alignments' = ExtractAlignments(CtcPath(log_probs, targets))
    /\ ctc_pc' = "returned"
    /\ UNCHANGED <<log_probs, targets, sanVars, expVars, clampVars, restVars>>

NextCTC == CtcForcedAlign

SpecCTC == InitCTC /\ [][NextCTC]_vars

----------------------------------------------------------------------------
(* Reference definitions for the CTC claims: the valid paths of the         *)
(* expanded target sequence, enumerated without the dynamic programme.      *)

\* states reachable in one frame from state s: +0, +1, or +2 across a blank
\* between two different tokens
Successors(ex, s) == {s2 \in DOMAIN ex : s2 = s \/ s2 = s + 1 \/ (s2 = s + 2 /\ ex[s2] # ex[s])}

IsTerminal(ex, s) == s = SetMax(DOMAIN ex) \/ s = SetMax(DOMAIN ex) - 1

IsValidPath(p, ex, T) ==
    /\ DOMAIN p = 0..(T - 1)
    /\ p[0] \in {0, 1}
    /\ IsTerminal(ex, p[T - 1])
    /\ \A t \in 0..(T - 2) : p[t + 1] \in Successors(ex, p[t])

RECURSIVE SuffixScores(_, _, _, _)
\* the scores of all valid path suffixes that are in state s at frame t
SuffixScores(lp, ex, t, s) ==
    IF t = NumFrames(lp) - 1
    THEN IF IsTerminal(ex, s) THEN {lp[t][ex[s]]} ELSE {}
    ELSE {lp[t][ex[s]] + x : x \in UNION {SuffixScores(lp, ex, t + 1, s2) : s2 \in Successors(ex, s)}}

\* the scores of all valid paths
ValidPathScores(lp, tg) ==
    LET ex == ExpandedTargets(tg)
    IN SuffixScores(lp, ex, 0, 0) \cup SuffixScores(lp, ex, 0, 1)

RECURSIVE PathScore(_, _, _, _)
\* sum over frames 0..t of log_probs[t][expanded[path[t]]]
PathScore(lp, ex, p, t) ==
    IF t < 0 THEN 0 ELSE PathScore(lp, ex, p, t - 1) + lp[t][ex[p[t]]]

Returned == ctc_pc = "returned" /\ NumTargets(targets) >= 1

\* entries in frame order, none overlapping the next, ranges inside 0..T-1
EntriesOrdered(al, T) ==
    /\ \A i \in 1..Len(al) : 0 <= al[i].start_frame /\ al[i].start_frame <= al[i].end_frame /\ al[i].end_frame <= T - 1
    /\ \A i \in 1..(Len(al) - 1) : al[i].end_frame < al[i + 1].start_frame

\* C1: with T >= 2S+1 frames the aligner returns exactly S entries, entry i
\* for target index i, in frame order, each ending strictly before the next
\* one starts.
C1_OneEntryPerTarget ==
    (Returned /\ NumFrames(log_probs) >= 2 * NumTargets(targets) + 1) =>
        /\ Len(alignments) = NumTargets(targets)
        /\ \A i \in 1..Len(alignments) : alignments[i].token_idx = i - 1
        /\ EntriesOrdered(alignments, NumFrames(log_probs))

C1_Witness ==
    /\ Returned
    /\ NumTargets(targets) = 2
    /\ NumFrames(log_probs) >= 5
    /\ Len(alignments) = 2
    /\ alignments[1].end_frame + 1 < alignments[2].start_frame

\* C2 (as claimed): with T < 2S-1 frames the aligner returns no entries.
C2_NoEntriesBelowTwoSMinusOne ==
    (Returned /\ NumFrames(log_probs) < 2 * NumTargets(targets) - 1) => alignments = <<>>

\* C2 (amended): when no valid path exists, which is always so for T < S,
\* the aligner returns the empty list.
C2_NoEntriesWhenInfeasible ==
    (Returned /\ (ValidPathScores(log_probs, targets) = {} \/ NumFrames(log_probs) < NumTargets(targets))) =>
        alignments = <<>>

C2_Witness ==
    /\ Returned
    /\ NumFrames(log_probs) = 2
    /\ NumTargets(targets) = 2
    /\ targets[0] = targets[1]
    /\ ValidPathScores(log_probs, targets) = {}
    /\ alignments = <<>>

\* C3: when a valid path exists, the backtracked path is a valid path and
\* its score is the maximum over all valid paths.
C3_PathIsMaximal ==
    (Returned /\ ValidPathScores(log_probs, targets) # {}) =>
        /\ IsValidPath(path, ExpandedTargets(targets), NumFrames(log_probs))
        /\ PathScore(log_probs, ExpandedTargets(targets), path, NumFrames(log_probs) - 1)
               = SetMax(ValidPathScores(log_probs, targets))

\* a case with several valid paths of different scores, where the best one
\* skips the blank between two different tokens
C3_Witness ==
    /\ Returned
    /\ NumTargets(targets) = 2
    /\ Cardinality(ValidPathScores(log_probs, targets)) >= 3
    /\ \E t \in 0..(NumFrames(log_probs) - 2) : path[t + 1] = path[t] + 2

\* C4: for any T >= 1, feasible or not, every target index appears at most
\* once, every entry has 0 <= start_frame <= end_frame <= T-1, and entries
\* are in frame order without overlap.
C4_EntriesWellFormed ==
    Returned =>
        /\ \A i, j \in 1..Len(alignments) : alignments[i].token_idx = alignments[j].token_idx => i = j
        /\ \A i \in 1..Len(alignments) : alignments[i].token_idx \in 0..(NumTargets(targets) - 1)
        /\ EntriesOrdered(alignments, NumFrames(log_probs))

\* an input below the feasibility threshold T >= 2S+1 that yields entries,
\* the second starting on the frame right after the first ends
C4_Witness ==
    /\ Returned
    /\ NumFrames(log_probs) < 2 * NumTargets(targets) + 1
    /\ Len(alignments) = 2
    /\ alignments[2].start_frame = alignments[1].end_frame + 1

----------------------------------------------------------------------------
(* Decimal arithmetic.  A time is an integer number of milliseconds.       *)

\* the integer nearest to n/d (d > 0), ties to the even one
RoundHalfEven(n, d) ==
    LET q == n \div d
        r == n % d
    IN IF 2 * r < d THEN q
       ELSE IF 2 * r > d THEN q + 1
       ELSE IF q % 2 = 0 THEN q ELSE q + 1

\* round(x, 2) for x = n/d milliseconds: the nearest multiple of 10 ms
Round2(n, d) == 10 * RoundHalfEven(n, 10 * d)

Word(id, s, e) == [word |-> id, start |-> s, end |-> e]

RECURSIVE SortByStart(_)
\* list.sort(key=lambda w: w["start"]): stable
SortByStart(ws) ==
    IF Len(ws) <= 1 THEN ws
    ELSE LET init == SortByStart(SubSeq(ws, 1, Len(ws) - 1))
             x == ws[Len(ws)]
             p == Cardinality({i \in 1..Len(init) : init[i].start <= x.start})
         IN SubSeq(init, 1, p) \o <<x>> \o SubSeq(init, p + 1, Len(init))

----------------------------------------------------------------------------
(* _reattach_word_timestamps and _sanitize_word_timestamps:                *)
(* src/text_refinery.py 76-183                                             *)

MaxTick == 3        \* input times lie on the grid 0, 1 s, ..., MaxTick s
MaxWords == 2       \* words per input segment

MAX_WORD_DURATION == 3000

\* GAP_THRESHOLD_RATIO = 0.5 as the fraction 1/2
GAP_THRESHOLD_NUM == 1

GAP_THRESHOLD_DEN == 2

\* the lead-in before the second word, 0.5 s
LeadIn == 500

Grid == {i * 1000 : i \in 0..MaxTick}

\* word durations below, at and above the ceiling
WordDurations == {1000, MAX_WORD_DURATION, 6000}

InputWords == {w \in [word : {0}, start : Grid, end : {s + d : s \in Grid, d \in WordDurations}] : (w.end - w.start) \in WordDurations}

\* lists of at most MaxWords words, numbered in list order
WordLists == UNION {{[i \in 1..n |-> [f[i] EXCEPT !.word = i]] : f \in [1..n -> InputWords]} : n \in 0..MaxWords}

Line(s, e, ws) == [start |-> s, end |-> e, words |-> ws]

\* first_word["end"] = round(first_word["start"] + MAX_WORD_DURATION, 2)  (lines 172, 179)
CapEnd(w) == Round2(w.start + MAX_WORD_DURATION, 1)

\* lines 176-179
CapWord(w) == IF w.end - w.start > MAX_WORD_DURATION THEN [w EXCEPT !.end = CapEnd(w)] ELSE w

CapAll(ws) == [i \in 1..Len(ws) |-> CapWord(ws[i])]

\* lines 170-173: the first word is longer than the ceiling
CapFirst(ws) == [ws EXCEPT ![1] = [ws[1] EXCEPT !.end = CapEnd(ws[1])]]

\* gap_before_second > segment_duration * GAP_THRESHOLD_RATIO  (lines 152-155)
Bunched(ws, line_start, line_end) ==
    (ws[2].start - line_start) * GAP_THRESHOLD_DEN > (line_end - line_start) * GAP_THRESHOLD_NUM

\* lines 157-165: word i of k starts at round(a + i*slot, 2), slot = (line_end - a)/k,
\* and lasts min(0.9*slot, MAX_WORD_DURATION), cut at line_end
Redistribute(ws, line_start, line_end) ==
    LET k == Len(ws)
        a == Max2(ws[2].start - LeadIn, line_start)
        total == line_end - a
    IN [i \in 1..k |->
           LET st == Round2(a * k + (i - 1) * total, k)
               en == IF 9 * total <= 10 * k * MAX_WORD_DURATION
                     THEN Round2(st * 10 * k + 9 * total, 10 * k)
                     ELSE Round2(st + MAX_WORD_DURATION, 1)
           IN [ws[i] EXCEPT !.start = st, !.end = Min2(en, line_end)]]

\* the body of the loop over lines (lines 131-181)
SanitizeLine(line) ==
    IF Len(line.words) = 0 \/ line.end - line.start <= 0 THEN line
    ELSE LET ws == SortByStart(line.words)
         IN IF ws[1].end - ws[1].start > MAX_WORD_DURATION /\ Len(ws) > 1
            THEN IF Bunched(ws, line.start, line.end)
                 THEN [line EXCEPT !.words = Redistribute(ws, line.start, line.end)]
                 ELSE [line EXCEPT !.words = CapAll(CapFirst(ws))]
            ELSE [line EXCEPT !.words = CapAll(ws)]

\* _sanitize_word_timestamps(lyrics)
Sanitize(ly) == [i \in 1..Len(ly) |-> SanitizeLine(ly[i])]

RECURSIVE FlattenWords(_)
\* all_words: every word of every raw segment, rounded to 2 decimals (lines 85-93)
FlattenWords(segs) ==
    IF Len(segs) = 0 THEN <<>>
    ELSE FlattenWords(SubSeq(segs, 1, Len(segs) - 1))
         \o [i \in 1..Len(segs[Len(segs)]) |->
                LET w == segs[Len(segs)][i]
                IN Word(w.word, Round2(w.start, 1), Round2(w.end, 1))]

RECURSIVE SelectOverlapping(_, _, _)
\* the words with w.start < line_end and w.end > line_start, in list order (lines 107-110)
SelectOverlapping(ws, line_start, line_end) ==
    IF Len(ws) = 0 THEN <<>>
    ELSE LET rest == SelectOverlapping(SubSeq(ws, 1, Len(ws) - 1), line_start, line_end)
             w == ws[Len(ws)]
         IN IF w.start < line_end /\ w.end > line_start THEN Append(rest, w) ELSE rest

\* lines 101-113
AttachLine(line, all_words) ==
    LET matched == SelectOverlapping(all_words, line.start, line.end)
    IN IF Len(matched) > 0 THEN [line EXCEPT !.words = matched] ELSE line

\* _reattach_word_timestamps(refined_lyrics, raw_segments)
Reattach(refined, segs) ==
    LET all_words == SortByStart(FlattenWords(segs))
    IN IF Len(all_words) = 0 THEN refined
       ELSE Sanitize([i \in 1..Len(refined) |-> AttachLine(refined[i], all_words)])

\* Either the refined lines arrive without words next to a transcription, or
\* the lines carry the oracle's own words and no transcribed word overlaps
\* them, so that the sanitizer receives the list as it is.
InitSanitize ==
    /\ \E s \in Grid, e \in Grid :
          \/ /\ san_pc = "reattach"
             /\ lyrics_in = <<Line(s, e, <<>>)>>
             /\ \E ws \in WordLists : raw_segments = <<ws>>
          \/ /\ san_pc = "sanitize"
             /\ \E ws \in WordLists : lyrics_in = <<Line(s, e, ws)>>
             /\ raw_segments = <<>>
    /\ lyrics = lyrics_in
    /\ first_pass = <<>>
    /\ IdleCtc /\ IdleExp /\ IdleClamp /\ IdleRest

\* _reattach_word_timestamps, which ends in the sanitizer unless there is no word
ReattachWordTimestamps ==
    /\ san_pc = "reattach"
    /\ lyrics' = Reattach(lyrics, raw_segments)
    /\ first_pass' = lyrics'
    /\ san_pc' = IF Len(FlattenWords(raw_segments)) = 0 THEN "unsanitized" ELSE "once"
    /\ UNCHANGED <<raw_segments, lyrics_in, ctcVars, expVars, clampVars, restVars>>

\* _sanitize_word_timestamps on the list as handed in
SanitizeWordTimestamps ==
    /\ san_pc = "sanitize"
    /\ lyrics' = Sanitize(lyrics)
    /\ first_pass' = lyrics'
    /\ san_pc' = "once"
    /\ UNCHANGED <<raw_segments, lyrics_in, ctcVars, expVars, clampVars, restVars>>

\* _sanitize_word_timestamps applied to its own output
SanitizeAgain ==
    /\ san_pc = "once"
    /\ lyrics' = Sanitize(lyrics)
    /\ san_pc' = "twice"
    /\ UNCHANGED <<raw_segments, lyrics_in, first_pass, ctcVars, expVars, clampVars, restVars>>

NextSanitize == ReattachWordTimestamps \/ SanitizeWordTimestamps \/ SanitizeAgain

SpecSanitize == InitSanitize /\ [][NextSanitize]_vars

----------------------------------------------------------------------------
(* Claims about the timestamp sanitizer *)

Sanitized == san_pc \in {"once", "twice"}

\* C7: applying the sanitizer to its own output changes neither the word
\* timings nor the word order.
C7_SanitizeIdempotent == san_pc = "twice" => lyrics = first_pass

\* C8: after the sanitizer every word lies inside its segment.
C8_WordsInsideSegment ==
    Sanitized =>
        \A i \in 1..Len(lyrics) : \A j \in 1..Len(lyrics[i].words) :
            /\ lyrics[i].start <= lyrics[i].words[j].start
            /\ lyrics[i].words[j].end <= lyrics[i].end

\* the segment was redistributed by the bunching rule
WasRedistributed(line) ==
    /\ Len(line.words) > 1
    /\ line.end - line.start > 0
    /\ SortByStart(line.words)[1].end - SortByStart(line.words)[1].start > MAX_WORD_DURATION
    /\ Bunched(SortByStart(line.words), line.start, line.end)

\* C9: after the sanitizer no word lasts longer than 3.0 s, and outside the
\* bunching rule every word that was longer keeps its start and ends
\* exactly 3.0 s after it.
C9_NoWordAboveCeiling ==
    san_pc = "once" =>
        \A i \in 1..Len(lyrics) :
            /\ \A j \in 1..Len(lyrics[i].words) :
                   lyrics[i].words[j].end - lyrics[i].words[j].start <= MAX_WORD_DURATION
            /\ (Len(raw_segments) = 0 /\ ~WasRedistributed(lyrics_in[i])) =>
                   \A w \in {lyrics_in[i].words[j] : j \in 1..Len(lyrics_in[i].words)} :
                       w.end - w.start > MAX_WORD_DURATION =>
                           \E j \in 1..Len(lyrics[i].words) :
                               lyrics[i].words[j] = [w EXCEPT !.end = w.start + MAX_WORD_DURATION]

----------------------------------------------------------------------------
(* Word clamping: _clamp_words (src/gemini_align.py 576-586) and the       *)
(* inline loops of align_lyrics_with_gemini (163-178) and                  *)
(* full_pipeline_gemini (363-367)                                          *)

MaxOracleWords == 2     \* words the oracle returns for one segment

\* a clamped word lasts at least 0.05 s
MinWordSpan == 50

\* oracle-derived words are capped at 1.5 s
OracleWordCap == 1500

\* lines 580-584
ClampWord(w, seg_start, seg_end) ==
    LET ws == Max2(seg_start, Min2(w.start, seg_end))
        we == Max2(ws + MinWordSpan, Min2(w.end, seg_end))
        capped == IF we - ws > OracleWordCap THEN Round2(ws + OracleWordCap, 1) ELSE we
    IN Word(w.word, Round2(ws, 1), Round2(capped, 1))

\* _clamp_words(gemini_words, seg_start, seg_end)
ClampWords(gw, seg_start, seg_end) ==
    SortByStart([i \in 1..Len(gw) |-> ClampWord(gw[i], seg_start, seg_end)])

\* align_lyrics_with_gemini, lines 164-178: the same steps written inline
AlignLyricsClamp(gw, seg_start, seg_end) ==
    SortByStart([i \in 1..Len(gw) |->
        LET ws == Max2(seg_start, Min2(gw[i].start, seg_end))
            we == Max2(ws + MinWordSpan, Min2(gw[i].end, seg_end))
            capped == IF we - ws > OracleWordCap THEN Round2(ws + OracleWordCap, 1) ELSE we
        IN Word(gw[i].word, Round2(ws, 1), Round2(capped, 1))])

\* full_pipeline_gemini, lines 363-367: the start is rounded before the end
\* is derived from it, and the words are not sorted
FullPipelineClamp(gw, start, end) ==
    [i \in 1..Len(gw) |->
        LET ws == Round2(Max2(start, Min2(gw[i].start, end)), 1)
            we == Round2(Max2(ws + MinWordSpan, Min2(gw[i].end, end)), 1)
        IN Word(gw[i].word, ws, IF we - ws > OracleWordCap THEN Round2(ws + OracleWordCap, 1) ELSE we)]

\* segment windows with seg_start < seg_end
ClampWindows == {[start |-> 10000, end |-> 13000], [start |-> 12000, end |-> 13000]}

\* times the oracle may return: before, inside, at the end of and after the window
OracleTimes == {9000, 10000, 12000, 13000, 14000}

OracleWords == [word : {"g"}, start : OracleTimes, end : OracleTimes]

OracleWordLists == UNION {[1..n -> OracleWords] : n \in 0..MaxOracleWords}

InitClamp ==
    /\ window \in ClampWindows
    /\ gemini_words \in OracleWordLists
    /\ clamped = <<>>
    /\ clamp_pc = "call"
    /\ IdleCtc /\ IdleSan /\ IdleExp /\ IdleRest

\* _clamp_words as called by align_and_split_lyrics
ClampWordsCall ==
    /\ clamp_pc = "call"
    /\ clamped' = ClampWords(gemini_words, window.start, window.end)
    /\ clamp_pc' = "clamp_words"
    /\ UNCHANGED <<window, gemini_words, ctcVars, sanVars, expVars, restVars>>

\* the clamping loop of align_lyrics_with_gemini
AlignLyricsClampCall ==
    /\ clamp_pc = "call"
    /\ clamped' = AlignLyricsClamp(gemini_words, window.start, window.end)
    /\ clamp_pc' = "align_lyrics"
    /\ UNCHANGED <<window, gemini_words, ctcVars, sanVars, expVars, restVars>>

\* the clamping loop of full_pipeline_gemini
FullPipelineClampCall ==
    /\ clamp_pc = "call"
    /\ clamped' = FullPipelineClamp(gemini_words, window.start, window.end)
    /\ clamp_pc' = "full_pipeline"
    /\ UNCHANGED <<window, gemini_words, ctcVars, sanVars, expVars, restVars>>

NextClamp == ClampWordsCall \/ AlignLyricsClampCall \/ FullPipelineClampCall

SpecClamp == InitClamp /\ [][NextClamp]_vars

\* C10: every clamped word lies inside the segment window, whatever the
\* oracle returned.
C10_ClampedInsideWindow ==
    clamp_pc \in {"clamp_words", "align_lyrics", "full_pipeline"} =>
        \A i \in 1..Len(clamped) :
            window.start <= clamped[i].start /\ clamped[i].end <= window.end

----------------------------------------------------------------------------
(* Repetition expander: align_and_split_lyrics (src/gemini_align.py        *)
(* 512-565), detect_chorus_repetitions (771-808), _even_words (589-600),   *)
(* _transfer_punctuation (603-651)                                         *)

MaxRepetitions == 12    \* the oracle's repetition values range over -1..MaxRepetitions

\* repetition counts are clamped to [1, 10]
MinReps == 1

MaxReps == 10

\* synthesized words end 0.03 s before the next slot
EvenWordGap == 30

\* A text is its list of whitespace-separated tokens.
Texts == {<<>>, <<"a">>, <<"a!,", "a">>, <<"a,b">>, <<"a", "b", "c", "d">>}

\* mutant: the count is only clamped from below
ClampReps_NoUpper(n) == Max2(MinReps, n)

\* max(1, min(reps, 10))  (lines 523, 777)
ClampReps(n) == Max2(MinReps, Min2(n, MaxReps))

\* seg_data.get(i, {}) after the lookup is built from the items with
\* seg_index >= 0, later items replacing earlier ones (lines 513-517, 522)
NoInfo == [has_repetitions |-> FALSE, repetitions |-> 1, words |-> <<>>]

SegInfo(items, i) ==
    LET hits == {k \in 1..Len(items) : items[k].seg_index >= 0 /\ items[k].seg_index = i}
    IN IF hits = {} THEN NoInfo
       ELSE [has_repetitions |-> items[SetMax(hits)].has_repetitions,
             repetitions |-> items[SetMax(hits)].repetitions,
             words |-> items[SetMax(hits)].words]

\* info.get("repetitions", 1)
Repetitions(inf) == IF inf.has_repetitions THEN inf.repetitions ELSE 1

\* mutant: the repetition length is rounded to 2 decimals before it is multiplied
RepBound_RoundedStep(sg, reps, r) == Round2(sg.start + r * Round2(sg.end - sg.start, reps), 1)

\* round(seg["start"] + r * rep_dur, 2) with rep_dur = (end - start) / reps  (lines 533-534, 788-789)
RepBound(sg, reps, r) == Round2(sg.start * reps + r * (sg.end - sg.start), reps)

\* _even_words(text, start, end)
EvenWords(text, start, end) ==
    LET n == Max2(Len(text), 1)
    IN [j \in 1..Len(text) |->
           Word(text[j], Round2(start * n + (j - 1) * (end - start), n),
                         Round2(start * n + j * (end - start) - EvenWordGap * n, n))]

\* text.replace(",", " ").replace("।", " ").split()  (lines 791-792)
RECURSIVE ChorusTokens(_)
ChorusTokens(text) ==
    IF Len(text) = 0 THEN <<>>
    ELSE ChorusTokens(SubSeq(text, 1, Len(text) - 1))
         \o (CASE text[Len(text)] = "a,b" -> <<"a", "b">>
               [] text[Len(text)] = "a!," -> <<"a!">>
               [] OTHER -> <<text[Len(text)]>>)

\* the words of one repetition in detect_chorus_repetitions: the slot is
\* rep_dur / max(n, 1), counted from the rounded rep_start  (lines 793-797)
ChorusWords(text, rep_start, dur, reps) ==
    LET tw == ChorusTokens(text)
        den == reps * Max2(Len(tw), 1)
    IN [j \in 1..Len(tw) |->
           Word(tw[j], Round2(rep_start * den + (j - 1) * dur, den),
                       Round2(rep_start * den + j * dur - EvenWordGap * den, den))]

Segment(text, start, end, words) == [text |-> text, start |-> start, end |-> end, words |-> words]

\* the loop body of align_and_split_lyrics for one segment (lines 522-553)
SplitSegment(sg, inf) ==
    LET reps == ClampReps(Repetitions(inf))
    IN IF reps > 1
       THEN [k \in 1..reps |->
                LET rep_start == RepBound(sg, reps, k - 1)
                    rep_end == RepBound(sg, reps, k)
                IN Segment(sg.text, rep_start, rep_end,
                           IF k = 1 /\ Len(inf.words) > 0
                           THEN ClampWords(inf.words, rep_start, rep_end)
                           ELSE EvenWords(sg.text, rep_start, rep_end))]
       ELSE IF Len(inf.words) > 0
            THEN <<[sg EXCEPT !.words = ClampWords(inf.words, sg.start, sg.end)]>>
            ELSE <<sg>>

\* the loop body of detect_chorus_repetitions for one segment (lines 782-805)
ChorusSegment(sg, inf) ==
    LET reps == ClampReps(Repetitions(inf))
    IN IF reps > 1
       THEN [k \in 1..reps |->
                LET rep_start == RepBound(sg, reps, k - 1)
                IN Segment(sg.text, rep_start, RepBound(sg, reps, k),
                           ChorusWords(sg.text, rep_start, sg.end - sg.start, reps))]
       ELSE <<sg>>

\* "!," -> "!" and the like, on a token and on a word  (lines 635-648)
CleanToken(tok) == IF tok = "a!," THEN "a!" ELSE tok

\* _transfer_punctuation(segments): segments without text or without words
\* are skipped
TransferPunctuation(segs) ==
    [i \in 1..Len(segs) |->
        IF Len(segs[i].text) = 0 \/ Len(segs[i].words) = 0 THEN segs[i]
        ELSE [segs[i] EXCEPT
                 !.text = [j \in 1..Len(segs[i].text) |-> CleanToken(segs[i].text[j])],
                 !.words = [j \in 1..Len(segs[i].words) |->
                               [segs[i].words[j] EXCEPT !.word = CleanToken(segs[i].words[j].word)]]]]

RECURSIVE SplitAll(_, _, _)
\* the loop of align_and_split_lyrics over lyrics_segments
SplitAll(segs, items, n) ==
    IF n = 0 THEN <<>>
    ELSE SplitAll(segs, items, n - 1) \o SplitSegment(segs[n], SegInfo(items, n - 1))

RECURSIVE ChorusAll(_, _, _)
\* the loop of detect_chorus_repetitions over lyrics_segments
ChorusAll(segs, items, n) ==
    IF n = 0 THEN <<>>
    ELSE ChorusAll(segs, items, n - 1) \o ChorusSegment(segs[n], SegInfo(items, n - 1))

\* source segments: starts and ends with 2 and with 3 decimals
SegStarts == {10000, 10004}

SegDurations == {1000, 6000}

\* what the oracle may return as words of a segment
ItemWords == {<<>>,
              <<Word("g", 10500, 11000)>>,
              <<Word("g", 15000, 20000), Word("g", 9000, 10200)>>,
              <<Word("g", 10000, 10800), Word("g", 10500, 11000)>>}

Items == {[seg_index |-> x, has_repetitions |-> h, repetitions |-> n, words |-> w] :
              x \in {-1, 0}, h \in BOOLEAN, n \in (0 - 1)..MaxRepetitions, w \in ItemWords}

InitExpand ==
    /\ \E t \in Texts, s \in SegStarts, d \in SegDurations :
          lyrics_segments = <<Segment(t, s, s + d, <<>>)>>
    /\ \E it \in Items : (it.has_repetitions \/ it.repetitions = 1) /\ data = <<it>>
    /\ expanded = <<>>
    /\ exp_pc = "call"
    /\ IdleCtc /\ IdleSan /\ IdleClamp /\ IdleRest

\* align_and_split_lyrics from the parsed response on
AlignAndSplitLyrics ==
    /\ exp_pc = "call"
    /\ expanded' = TransferPunctuation(SplitAll(lyrics_segments, data, Len(lyrics_segments)))
    /\ exp_pc' = "split"
    /\ UNCHANGED <<lyrics_segments, data, ctcVars, sanVars, clampVars, restVars>>

\* detect_chorus_repetitions from the parsed response on
DetectChorusRepetitions ==
    /\ exp_pc = "call"
    /\ expanded' = ChorusAll(lyrics_segments, data, Len(lyrics_segments))
    /\ exp_pc' = "chorus"
    /\ UNCHANGED <<lyrics_segments, data, ctcVars, sanVars, clampVars, restVars>>

\* what the loop body of align_and_split_lyrics does to the input segment
\* itself: an unsplit segment gets the oracle's words in place  (lines 549-553)
KeptSegment(sg, inf) ==
    IF ClampReps(Repetitions(inf)) <= 1 /\ Len(inf.words) > 0
    THEN [sg EXCEPT !.words = ClampWords(inf.words, sg.start, sg.end)]
    ELSE sg

\* lyrics_segments after the loop has processed its first k segments
PartlyProcessed(segs, items, k) ==
    [i \in 1..Len(segs) |-> IF i <= k THEN KeptSegment(segs[i], SegInfo(items, i - 1)) ELSE segs[i]]

\* align_and_split_lyrics when every backend fails: a response is refused
\* before the loop (k = 0) or raises in the loop after k segments (a word
\* without "start", a repetition count that is no number); the exception is
\* caught, the later backends fail, and lyrics_segments is returned
\* (lines 479-510, 567-573)
AlignAndSplitFails ==
    /\ exp_pc = "call"
    /\ \E k \in 0..(Len(lyrics_segments) - 1) :
          expanded' = PartlyProcessed(lyrics_segments, data, k)
    /\ exp_pc' = "kept"
    /\ UNCHANGED <<lyrics_segments, data, ctcVars, sanVars, clampVars, restVars>>

NextExpand == AlignAndSplitLyrics \/ DetectChorusRepetitions \/ AlignAndSplitFails

SpecExpand == InitExpand /\ [][NextExpand]_vars

----------------------------------------------------------------------------
(* Claims about the repetition expander *)

Expanded == exp_pc \in {"split", "chorus"}

\* the repetition value the oracle gave for the source segment, 1 if none
OracleReps ==
    IF data[1].seg_index = 0 /\ data[1].has_repetitions THEN data[1].repetitions ELSE 1

\* the clamped count, written out
ClampedCount == IF OracleReps < 1 THEN 1 ELSE IF OracleReps > 10 THEN 10 ELSE OracleReps

\* consecutive sub-segments share their boundary, and each lasts D/n up to
\* the two roundings of its bounds
ContiguousEqualParts(src, out) ==
    /\ \A k \in 1..(Len(out) - 1) : out[k].end = out[k + 1].start
    /\ \A k \in 1..Len(out) :
           LET err == Len(out) * (out[k].end - out[k].start) - (src.end - src.start)
           IN (0 - 10) * Len(out) <= err /\ err <= 10 * Len(out)

\* C5 (as claimed): a segment split n > 1 times yields n sub-segments with
\* the source text, of duration D/n up to rounding, contiguous, the first
\* starting at the original start and the last ending at the original end.
C5_SplitCoversOriginalWindow ==
    (Expanded /\ ClampedCount > 1) =>
        /\ Len(expanded) = ClampedCount
        /\ \A k \in 1..Len(expanded) : expanded[k].text = lyrics_segments[1].text
        /\ ContiguousEqualParts(lyrics_segments[1], expanded)
        /\ expanded[1].start = lyrics_segments[1].start
        /\ expanded[Len(expanded)].end = lyrics_segments[1].end

\* C5 (amended): the first sub-segment starts at the original start rounded
\* to 2 decimals, the last ends at the original end rounded to 2 decimals,
\* and align_and_split_lyrics emits the text with doubled punctuation
\* collapsed whenever the sub-segment has text and words.
C5_SplitCoversRoundedWindow ==
    (Expanded /\ ClampedCount > 1) =>
        /\ Len(expanded) = ClampedCount
        /\ \A k \in 1..Len(expanded) :
               expanded[k].text =
                   IF exp_pc = "split" /\ Len(expanded[k].words) > 0
                   THEN [j \in 1..Len(lyrics_segments[1].text) |-> CleanToken(lyrics_segments[1].text[j])]
                   ELSE lyrics_segments[1].text
        /\ ContiguousEqualParts(lyrics_segments[1], expanded)
        /\ expanded[1].start = Round2(lyrics_segments[1].start, 1)
        /\ expanded[Len(expanded)].end = Round2(lyrics_segments[1].end, 1)

\* the segment {10.0, 16.0} with count 2 becomes {10.0, 13.0}, {13.0, 16.0}
C5_Witness ==
    /\ exp_pc = "split"
    /\ lyrics_segments[1].start = 10000 /\ lyrics_segments[1].end = 16000
    /\ OracleReps = 2
    /\ Len(expanded) = 2
    /\ expanded[1].start = 10000 /\ expanded[1].end = 13000
    /\ expanded[2].start = 13000 /\ expanded[2].end = 16000

\* C6: whatever repetition value the oracle returns, or none, the source
\* segment yields max(1, min(n, 10)) segments, so between 1 and 10.
C6_CountIsClamped ==
    Expanded => Len(expanded) = ClampedCount /\ 1 <= Len(expanded) /\ Len(expanded) <= 10

\* an oracle value above 10 yields 10 segments
C6_Witness == Expanded /\ OracleReps > 10 /\ Len(expanded) = 10

\* C11: every word of every segment returned by align_and_split_lyrics has
\* end > start, whether it was clamped from the oracle or synthesized.
C11_WordsHavePositiveLength ==
    exp_pc = "split" =>
        \A k \in 1..Len(expanded) : \A j \in 1..Len(expanded[k].words) :
            expanded[k].words[j].end > expanded[k].words[j].start

\* C12: in every segment returned by align_and_split_lyrics the words are in
\* non-decreasing start order and each word ends no later than the next starts.
C12_WordsOrderedNonOverlapping ==
    exp_pc = "split" =>
        \A k \in 1..Len(expanded) : \A j \in 1..(Len(expanded[k].words) - 1) :
            /\ expanded[k].words[j].start <= expanded[k].words[j + 1].start
            /\ expanded[k].words[j].end <= expanded[k].words[j + 1].start

----------------------------------------------------------------------------
(* Word/line reconstruction: align_with_nemo steps 5-8                     *)
(* (src/nemo_align.py 235-312) and _map_words_to_lines (335-376).          *)
(* frame_duration is counted in microseconds, so that round(x, 3) of a     *)
(* frame time is a rounding to whole milliseconds.                         *)

MaxLines == 3       \* lyric lines per call

MaxGap == 1         \* blank frames before a character

MaxRun == 2         \* frames held by a character

\* a line without words starts 0.5 s after the previous segment's end
PlaceholderLead == 500

\* and ends 3.0 s after the previous segment's end
PlaceholderSpan == 3000

\* word_start = None
NoTime == -1

\* round(x, 3) of a time given in microseconds, in milliseconds
Round3(us) == RoundHalfEven(us, 1000)

\* A lyric line is its list of whitespace-separated tokens (orig_line.split()).
\* "a," carries punctuation, "!" is punctuation only, "x" is a word whose
\* character the vocabulary does not have.
LineChoices == {<<"a">>, <<"a,", "aa">>, <<"!">>, <<"x">>, <<"a", "x">>}

\* _strip_punctuation on one token: the characters that are left
StripPunctuation(tok) ==
    CASE tok = "a" -> <<"a">>
      [] tok = "a," -> <<"a">>
      [] tok = "aa" -> <<"a", "a">>
      [] tok = "!" -> <<>>
      [] OTHER -> <<tok>>

\* _strip_punctuation(line).split(): the words of the clean line
CleanWords(line) ==
    LET IsWord(w) == Len(w) > 0
    IN SelectSeq([i \in 1..Len(line) |-> StripPunctuation(line[i])], IsWord)

RECURSIVE JoinSpace(_)
\* " ".join(parts), as a character list
JoinSpace(parts) ==
    IF Len(parts) = 0 THEN <<>>
    ELSE IF Len(parts) = 1 THEN parts[1]
    ELSE JoinSpace(SubSeq(parts, 1, Len(parts) - 1)) \o <<" ">> \o parts[Len(parts)]

\* clean_lines, each as a character list  (line 235)
CleanLineChars(lines) == [k \in 1..Len(lines) |-> JoinSpace(CleanWords(lines[k]))]

\* full_char_list: the characters of " ".join(clean_lines) that the
\* vocabulary has  (lines 242-259)
FullCharList(lines, voc) ==
    LET InVocab(c) == c \in voc
    IN SelectSeq(JoinSpace(CleanLineChars(lines)), InVocab)

\* frame runs the aligner may return: one run per character, in order,
\* disjoint; character k waits gap frames and holds len frames
FramePatterns == [1..2 -> [gap : 0..MaxGap, len : 1..MaxRun]]

RECURSIVE AlignmentsFor(_, _)
AlignmentsFor(S, pat) ==
    IF S = 0 THEN <<>>
    ELSE LET prev == AlignmentsFor(S - 1, pat)
             p == pat[((S - 1) % 2) + 1]
             first == (IF S = 1 THEN 0 ELSE prev[S - 1].end_frame + 1) + p.gap
         IN Append(prev, Entry(S - 1, first, first + p.len - 1))

\* char_times  (lines 278-283)
CharTimes(al, chars, fd) ==
    [k \in 1..Len(al) |->
        [char |-> chars[al[k].token_idx + 1],
         start |-> Round3(al[k].start_frame * fd),
         end |-> Round3((al[k].end_frame + 1) * fd)]]

RECURSIVE GroupLoop(_, _)
\* the loop that groups characters into words  (lines 286-302)
GroupLoop(ct, k) ==
    IF k = 0 THEN [current_word_chars |-> <<>>, word_start |-> NoTime, word_end |-> NoTime, all_words |-> <<>>]
    ELSE LET st == GroupLoop(ct, k - 1)
         IN IF ct[k].char = " "
            THEN IF Len(st.current_word_chars) > 0
                 THEN [current_word_chars |-> <<>>, word_start |-> NoTime, word_end |-> st.word_end,
                       all_words |-> Append(st.all_words, Word(st.current_word_chars, st.word_start, st.word_end))]
                 ELSE st
            ELSE [current_word_chars |-> Append(st.current_word_chars, ct[k].char),
                  word_start |-> IF st.word_start = NoTime THEN ct[k].start ELSE st.word_start,
                  word_end |-> ct[k].end,
                  all_words |-> st.all_words]

\* all_words, the last word included  (lines 286-307)
GroupWords(ct) ==
    LET st == GroupLoop(ct, Len(ct))
    IN IF Len(st.current_word_chars) > 0
       THEN Append(st.all_words, Word(st.current_word_chars, st.word_start, st.word_end))
       ELSE st.all_words

\* mutant: the segment ends with its first word
SegmentOfWords_FirstEnd(text, seg_words) ==
    Segment(text, seg_words[1].start, seg_words[1].end, seg_words)

\* a line that received words  (lines 359-365)
SegmentOfWords(text, seg_words) ==
    Segment(text, seg_words[1].start, seg_words[Len(seg_words)].end, seg_words)

\* a line that received none  (lines 366-374)
PlaceholderSegment(text, segs) ==
    LET prev_end == IF Len(segs) > 0 THEN segs[Len(segs)].end ELSE 0
    IN Segment(text, Round2(prev_end + PlaceholderLead, 1), Round2(prev_end + PlaceholderSpan, 1), <<>>)

RECURSIVE MapLoop(_, _, _, _)
\* the loop of _map_words_to_lines over the first k lines  (lines 342-374)
MapLoop(words, orig, clean, k) ==
    IF k = 0 THEN [segments |-> <<>>, word_idx |-> 0]
    ELSE LET st == MapLoop(words, orig, clean, k - 1)
             n_words == Len(clean[k])
             taken == Min2(n_words, Len(words) - st.word_idx)
             seg_words == [i \in 1..taken |->
                              LET w == words[st.word_idx + i]
                              IN Word(IF i <= Len(orig[k]) THEN orig[k][i] ELSE w.word,
                                      Round2(w.start, 1), Round2(w.end, 1))]
         IN [word_idx |-> st.word_idx + taken,
             segments |-> Append(st.segments,
                                 IF taken > 0 THEN SegmentOfWords(orig[k], seg_words)
                                 ELSE PlaceholderSegment(orig[k], st.segments))]

\* mutant: the loop over the lines stops before the last line
MapWordsToLines_SkipsLastLine(words, orig, clean) == MapLoop(words, orig, clean, Len(orig) - 1).segments

\* _map_words_to_lines(all_words, original_lines, clean_lines)
MapWordsToLines(words, orig, clean) == MapLoop(words, orig, clean, Len(orig)).segments

FrameDurations == {3300, 40000}

Vocabularies == {{"a", " "}, {"a"}}

LineLists == UNION {[1..n -> LineChoices] : n \in 0..MaxLines}

InitLines ==
    /\ original_lines \in LineLists
    /\ vocab \in Vocabularies
    /\ frame_duration \in FrameDurations
    /\ \/ \E pat \in FramePatterns :
             char_alignments = AlignmentsFor(Len(FullCharList(original_lines, vocab)), pat)
       \/ char_alignments = <<>>
    /\ aligned_words = <<>>
    /\ segments = <<>>
    /\ nemo_pc = "call"
    /\ IdleCtc /\ IdleSan /\ IdleExp /\ IdleClamp /\ IdleFull /\ IdleMain /\ IdleBatch

\* align_with_nemo when there is no lyrics line (lines 175-177), when no
\* character of the lyrics is in the vocabulary (lines 261-263) or when the
\* aligner returned nothing (lines 270-272)
AlignWithNemoFails ==
    /\ nemo_pc = "call"
    /\ Len(FullCharList(original_lines, vocab)) = 0 \/ Len(char_alignments) = 0
    /\ nemo_pc' = "none"
    /\ UNCHANGED <<original_lines, vocab, frame_duration, char_alignments, aligned_words, segments,
                   ctcVars, sanVars, expVars, clampVars, fullVars, opVars, mainVars, batchVars>>

\* align_with_nemo, steps 7 and 8: character times, words, lines
AlignWithNemo ==
    /\ nemo_pc = "call"
    /\ Len(FullCharList(original_lines, vocab)) > 0 /\ Len(char_alignments) > 0
    /\ aligned_words' = GroupWords(CharTimes(char_alignments, FullCharList(original_lines, vocab), frame_duration))
    /\ segments' = MapWordsToLines(aligned_words', original_lines,
                                   [k \in 1..Len(original_lines) |-> CleanWords(original_lines[k])])
    /\ nemo_pc' = "returned"
    /\ UNCHANGED <<original_lines, vocab, frame_duration, char_alignments,
                   ctcVars, sanVars, expVars, clampVars, fullVars, opVars, mainVars, batchVars>>

NextLines == AlignWithNemoFails \/ AlignWithNemo

SpecLines == InitLines /\ [][NextLines]_vars

----------------------------------------------------------------------------
(* Claims about the word/line reconstruction *)

\* C13: every returned segment with words starts at the minimum word start
\* and ends at the maximum word end.
C13_SegmentSpansItsWords ==
    nemo_pc = "returned" =>
        \A k \in 1..Len(segments) :
            Len(segments[k].words) > 0 =>
                /\ segments[k].start = SetMin({segments[k].words[j].start : j \in 1..Len(segments[k].words)})
                /\ segments[k].end = SetMax({segments[k].words[j].end : j \in 1..Len(segments[k].words)})

\* a returned line of two words with different times
C13_Witness ==
    /\ nemo_pc = "returned"
    /\ \E k \in 1..Len(segments) :
          /\ Len(segments[k].words) = 2
          /\ segments[k].words[1].start < segments[k].words[2].start
          /\ segments[k].words[1].end < segments[k].words[2].end
          /\ segments[k].start = segments[k].words[1].start
          /\ segments[k].end = segments[k].words[2].end

\* C14: a line without aligned words becomes a segment without words that
\* starts 0.5 s after the previous segment's end (after 0 if there is none)
\* and ends 3.0 s after its own start.
C14_PlaceholderLastsThreeSeconds ==
    nemo_pc = "returned" =>
        \A k \in 1..Len(segments) :
            Len(segments[k].words) = 0 =>
                LET prev_end == IF k > 1 THEN segments[k - 1].end ELSE 0
                IN /\ segments[k].start = prev_end + 500
                   /\ segments[k].end = segments[k].start + 3000

\* C15: the returned segments are in non-decreasing start order and no
\* segment starts before the previous one ends.
C15_SegmentsOrdered ==
    nemo_pc = "returned" =>
        \A k \in 1..(Len(segments) - 1) :
            /\ segments[k].start <= segments[k + 1].start
            /\ segments[k].end <= segments[k + 1].start

----------------------------------------------------------------------------
(* The repetition expander on a list of two source segments *)

MaxSplit == 3       \* the oracle's repetition values for the two segments: 1..MaxSplit

\* segment bounds with 2 and with 3 decimals
OrderTimes == {10000, 10003, 10004, 11000, 12000}

\* two source segments ordered by start, each with end > start, the second
\* starting no earlier than the first ends
OrderedPairs ==
    {<<Segment(<<"a">>, s1, e1, <<>>), Segment(<<"b">>, s2, e2, <<>>)>> :
         <<s1, e1, s2, e2>> \in {t \in OrderTimes \X OrderTimes \X OrderTimes \X OrderTimes :
                                    t[1] < t[2] /\ t[2] <= t[3] /\ t[3] < t[4]}}

OrderItemWords == {<<>>, <<Word("g", 10000, 10800), Word("g", 10500, 11000)>>}

InitExpandOrder ==
    /\ lyrics_segments \in OrderedPairs
    /\ \E n1 \in 1..MaxSplit, n2 \in 1..MaxSplit, w1 \in OrderItemWords, w2 \in OrderItemWords :
          data = <<[seg_index |-> 0, has_repetitions |-> TRUE, repetitions |-> n1, words |-> w1],
                   [seg_index |-> 1, has_repetitions |-> TRUE, repetitions |-> n2, words |-> w2]>>
    /\ expanded = <<>>
    /\ exp_pc = "call"
    /\ IdleCtc /\ IdleSan /\ IdleClamp /\ IdleRest

SpecExpandOrder == InitExpandOrder /\ [][NextExpand]_vars

\* C16: for two source segments ordered by start and not overlapping, the
\* expander emits the sub-segments of the first source, then those of the
\* second; the sub-segments of one source are contiguous and in time order;
\* and the whole list is ordered by non-decreasing start.
C16_ExpansionKeepsOrder ==
    (Expanded /\ Len(lyrics_segments) = 2) =>
        LET n1 == ClampReps(data[1].repetitions)
            n2 == ClampReps(data[2].repetitions)
        IN /\ Len(expanded) = n1 + n2
           /\ \A k \in 1..Len(expanded) :
                  expanded[k].text = lyrics_segments[IF k <= n1 THEN 1 ELSE 2].text
           /\ \A k \in 1..(Len(expanded) - 1) :
                  k # n1 => /\ expanded[k].end = expanded[k + 1].start
                            /\ expanded[k].start <= expanded[k + 1].start
           /\ \A k \in 1..(Len(expanded) - 1) : expanded[k].start <= expanded[k + 1].start

----------------------------------------------------------------------------
(* full_pipeline_gemini from the parsed response on                        *)
(* (src/gemini_align.py 346-384)                                           *)

MaxItems == 2       \* items in the oracle's response

\* a segment without "end" ends 0.1 s after its start, and no segment is
\* shorter than that before the cut at the audio's end
MinSegmentSpan == 100

\* the share of the expected lines a response must carry: 0.8
AcceptNum == 8

AcceptDen == 10

AudioDurations == {5000, 10000}

\* start and end values of the oracle: negative, inside, at and beyond the
\* end of the audio; NoTime stands for a missing key
PipelineTimes == {NoTime, -1000, 4950, 10000, 12000}

PipelineItems ==
    {[text |-> t, start |-> s, end |-> e,
      words |-> IF Len(t) > 0 THEN <<Word("a", 4000, 12000)>> ELSE <<>>] :
         t \in {<<>>, <<"a">>}, s \in PipelineTimes, e \in PipelineTimes}

\* min(max(item.get("start", 0), 0), audio_duration)  (line 359)
ItemStart(item, dur) == Min2(Max2(IF item.start = NoTime THEN 0 ELSE item.start, 0), dur)

\* min(max(item.get("end", start + 0.1), start + 0.1), audio_duration)  (line 360)
ItemEnd(item, dur) ==
    LET start == ItemStart(item, dur)
    IN Min2(Max2(IF item.end = NoTime THEN start + MinSegmentSpan ELSE item.end,
                 start + MinSegmentSpan), dur)

\* the loop over the items  (lines 356-369)
PipelineSegments(items, dur) ==
    [k \in 1..Len(items) |->
        LET start == ItemStart(items[k], dur)
            end == ItemEnd(items[k], dur)
        IN Segment(items[k].text, Round2(start, 1), Round2(end, 1),
                   FullPipelineClamp(items[k].words, start, end))]

\* non_empty_count < total_lines * 0.8  (lines 350-351)
TooFewLines(items, n) ==
    AcceptDen * Cardinality({k \in 1..Len(items) : Len(items[k].text) > 0}) < AcceptNum * n

InitFullPipeline ==
    /\ audio_duration \in AudioDurations
    /\ total_lines \in 0..MaxItems
    /\ pipeline_data \in UNION {[1..n -> PipelineItems] : n \in 1..MaxItems}
    /\ pipeline_segments = <<>>
    /\ pipeline_pc = "call"
    /\ IdleCtc /\ IdleSan /\ IdleExp /\ IdleClamp /\ IdleLines /\ IdleMain /\ IdleBatch

\* the response carries too few lines: the backend is given up
FullPipelineRejects ==
    /\ pipeline_pc = "call"
    /\ TooFewLines(pipeline_data, total_lines)
    /\ pipeline_pc' = "rejected"
    /\ UNCHANGED <<audio_duration, total_lines, pipeline_data, pipeline_segments,
                   ctcVars, sanVars, expVars, clampVars, lineVars, opVars, mainVars, batchVars>>

\* the response is accepted: clamp, round, transfer punctuation, return
FullPipelineGemini ==
    /\ pipeline_pc = "call"
    /\ ~TooFewLines(pipeline_data, total_lines)
    /\ pipeline_segments' = TransferPunctuation(PipelineSegments(pipeline_data, audio_duration))
    /\ pipeline_pc' = "returned"
    /\ UNCHANGED <<audio_duration, total_lines, pipeline_data,
                   ctcVars, sanVars, expVars, clampVars, lineVars, opVars, mainVars, batchVars>>

NextFullPipeline == FullPipelineRejects \/ FullPipelineGemini

SpecFullPipeline == InitFullPipeline /\ [][NextFullPipeline]_vars

\* C19: every segment returned by full_pipeline_gemini has end > start,
\* whatever start and end values the oracle returned.
C19_SegmentsHavePositiveLength ==
    pipeline_pc = "returned" =>
        \A k \in 1..Len(pipeline_segments) :
            pipeline_segments[k].end > pipeline_segments[k].start

----------------------------------------------------------------------------
(* The bunching rule of the sanitizer *)

\* the line as the sanitizer receives it: with the overlapping words of the
\* transcription attached, or as handed in
SanitizerInput(i) ==
    IF Len(raw_segments) = 0 THEN lyrics_in[i]
    ELSE AttachLine(lyrics_in[i], SortByStart(FlattenWords(raw_segments)))

\* C18: when the first word (after sorting) of a segment of positive duration
\* with at least two words lasts more than 3.0 s and the second word starts
\* later than half the segment after the segment's start, the k words are
\* placed at lead-in + i * slot over [max(second_start - 0.5, start), end],
\* in increasing start order, without overlap, inside the segment; in every
\* other case no word start is changed.
C18_BunchedWordsAreSpreadEvenly ==
    san_pc = "once" =>
        \A i \in 1..Len(lyrics) :
            LET inl == SanitizerInput(i)
                ws == SortByStart(inl.words)
                out == lyrics[i].words
                k == Len(ws)
            IN /\ Len(out) = k
               /\ IF WasRedistributed(inl)
                  THEN LET a == Max2(ws[2].start - 500, inl.start)
                       IN /\ \A j \in 1..k : out[j].start = Round2(a * k + (j - 1) * (inl.end - a), k)
                          /\ \A j \in 1..(k - 1) :
                                 out[j].start <= out[j + 1].start /\ out[j].end <= out[j + 1].start
                          /\ \A j \in 1..k : inl.start <= out[j].start /\ out[j].end <= inl.end
                  ELSE {<<ws[j].word, ws[j].start>> : j \in 1..k} = {<<out[j].word, out[j].start>> : j \in 1..k}

----------------------------------------------------------------------------
(* The oracle-backed operations and their backend lists                    *)
(* (src/gemini_align.py 78-198, 303-392, 458-573;                          *)
(*  src/text_refinery.py 206-327, 374-410)                                 *)

Operations == {"align_lyrics_with_gemini", "full_pipeline_gemini", "align_and_split_lyrics",
               "refine_lyrics_with_gemini", "inject_lyrics_with_gemini"}

\* models / models_to_try of each operation
Models(o) ==
    CASE o = "refine_lyrics_with_gemini" ->
             <<"gemini-2.5-flash", "gemini-2.0-flash-exp", "gemini-1.5-pro-002", "gemini-1.5-flash", "gemini-pro">>
      [] o = "inject_lyrics_with_gemini" ->
             <<"gemini-2.5-flash", "gemini-1.5-pro-002", "gemini-1.5-flash">>
      [] OTHER -> <<"gemini-2.5-flash", "gemini-2.0-flash">>

\* the operations that read the audio file before the loop
NeedsAudio(o) == o \in {"align_lyrics_with_gemini", "full_pipeline_gemini", "align_and_split_lyrics"}

\* what is returned when no backend was accepted
FallbackValue(o) ==
    IF o \in {"align_lyrics_with_gemini", "align_and_split_lyrics"} THEN "lyrics_segments" ELSE "None"

\* what one attempt can end in: a status other than 200, no text in the
\* response, no parsable JSON array, an exception (network error, timeout,
\* malformed item) or acceptance; the operations of gemini_align also
\* reject an empty list (full_pipeline_gemini: too few lines)
Responses(o) ==
    {"http_error", "no_text", "bad_json", "exception", "accepted"}
        \cup (IF NeedsAudio(o) THEN {"rejected"} ELSE {})

\* mutant: a failed backend makes the loop skip the next one
NextModel_SkipOne(i) == i + 2

\* continue / fall out of the try block: the for loop moves to the next backend
NextModel(i) == i + 1

\* the call of an operation up to its loop: without a key, or without the
\* audio file, the fallback value is returned at once
StartOp(o) ==
    /\ op' = o
    /\ tried' = <<>>
    /\ IF ~api_key \/ (NeedsAudio(o) /\ ~audio_exists)
       THEN model_idx' = 0 /\ op_result' = "fallback"
       ELSE model_idx' = 1 /\ op_result' = "pending"

\* one iteration of the loop over the backends: one requests.post
Attempt ==
    /\ op_result = "pending"
    /\ model_idx <= Len(Models(op))
    /\ \E r \in Responses(op) :
          /\ tried' = Append(tried, [model |-> Models(op)[model_idx], response |-> r])
          /\ IF r = "accepted"
             THEN op_result' = "accepted" /\ model_idx' = model_idx
             ELSE op_result' = "pending" /\ model_idx' = NextModel(model_idx)
    /\ UNCHANGED <<op, mainVars, ctcVars, sanVars, expVars, clampVars, lineVars, fullVars, batchVars>>

\* requests.post is given a timeout (180 or 300 seconds) by the operations
\* of gemini_align and none by those of text_refinery
HasTimeout(o) == o \in {"align_lyrics_with_gemini", "full_pipeline_gemini", "align_and_split_lyrics"}

\* the backend never answers.  With a timeout requests.post raises and the
\* attempt is one of those of Attempt ("exception"); without one the call
\* never returns
AttemptBlocks ==
    /\ op_result = "pending"
    /\ model_idx <= Len(Models(op))
    /\ ~HasTimeout(op)
    /\ tried' = Append(tried, [model |-> Models(op)[model_idx], response |-> "no_answer"])
    /\ op_result' = "blocked"
    /\ UNCHANGED <<op, model_idx, mainVars, ctcVars, sanVars, expVars, clampVars, lineVars, fullVars, batchVars>>

\* the loop is over and nothing was accepted: "All models failed"
AllModelsFailed ==
    /\ op_result = "pending"
    /\ model_idx > Len(Models(op))
    /\ op_result' = "fallback"
    /\ UNCHANGED <<op, model_idx, tried, mainVars, ctcVars, sanVars, expVars, clampVars, lineVars, fullVars, batchVars>>

----------------------------------------------------------------------------
(* The entry points: main (src/main.py 67-177), the command line of        *)
(* nemo_align (src/nemo_align.py 452-466) and of gemini_align              *)
(* (src/gemini_align.py 811-837).  stages records what the candidate list  *)
(* has gone through: "RAW" aligner output, "CLAMPED" words clamped into    *)
(* their segment, "SANITIZED" _sanitize_word_timestamps.                   *)

InitPipeline ==
    /\ entry \in {"main", "nemo_cli", "align_cli"}
    /\ ground_truth \in BOOLEAN
    /\ skip_isolation \in BOOLEAN
    /\ (entry # "main" => ~ground_truth /\ ~skip_isolation)
    /\ api_key \in BOOLEAN
    /\ audio_exists \in BOOLEAN
    /\ main_pc = entry
    /\ stages = <<>>
    /\ lyrics_file = <<>>
    /\ op = "none" /\ model_idx = 0 /\ tried = <<>> /\ op_result = "none"
    /\ IdleCtc /\ IdleSan /\ IdleExp /\ IdleClamp /\ IdleLines /\ IdleFull /\ IdleBatch

Rest == <<ctcVars, sanVars, expVars, clampVars, lineVars, fullVars, batchVars>>

Flags == <<entry, ground_truth, skip_isolation, api_key, audio_exists>>

\* main, lines 69-72: the audio file is missing
MainNoAudio ==
    /\ main_pc = "main" /\ ~audio_exists
    /\ main_pc' = "done"
    /\ UNCHANGED <<Flags, stages, lyrics_file, opVars, Rest>>

\* main, lines 113-117: the fast path calls full_pipeline_gemini
MainFastPath ==
    /\ main_pc = "main" /\ audio_exists /\ ground_truth /\ skip_isolation
    /\ StartOp("full_pipeline_gemini")
    /\ main_pc' = "fast_path"
    /\ UNCHANGED <<Flags, stages, lyrics_file, Rest>>

\* main, lines 118-121: the fast path's list, clamped in
\* full_pipeline_gemini, is written
FastPathSaved ==
    /\ main_pc = "fast_path" /\ op_result = "accepted"
    /\ stages' = <<"RAW", "CLAMPED">>
    /\ lyrics_file' = stages'
    /\ main_pc' = "render"
    /\ UNCHANGED <<Flags, opVars, Rest>>

\* main, lines 122-136: the fast path failed, the standard path runs
FastPathFailed ==
    /\ main_pc = "fast_path" /\ op_result = "fallback" /\ FallbackValue(op) = "None"
    /\ main_pc' = "standard"
    /\ UNCHANGED <<Flags, stages, lyrics_file, opVars, Rest>>

\* main, lines 136: no fast path
MainStandardPath ==
    /\ main_pc = "main" /\ audio_exists /\ ~(ground_truth /\ skip_isolation)
    /\ main_pc' = "standard"
    /\ UNCHANGED <<Flags, stages, lyrics_file, opVars, Rest>>

\* main, lines 139-142: the transcription produced nothing
TranscriptionFailed ==
    /\ main_pc = "standard"
    /\ main_pc' = "done"
    /\ UNCHANGED <<Flags, stages, lyrics_file, opVars, Rest>>

\* main, lines 139-154: raw_segments, then the injection or the refinement
Transcribed ==
    /\ main_pc = "standard"
    /\ stages' = <<"RAW">>
    /\ StartOp(IF ground_truth THEN "inject_lyrics_with_gemini" ELSE "refine_lyrics_with_gemini")
    /\ main_pc' = "gemini_processing"
    /\ UNCHANGED <<Flags, lyrics_file, Rest>>

\* main, lines 159-166: the refined list is written, then handed to
\* align_and_split_lyrics.  The accepted response went through
\* _reattach_word_timestamps, which ends in the sanitizer when the
\* transcription has words.
RefinedSaved ==
    /\ main_pc = "gemini_processing" /\ op_result = "accepted"
    /\ \E has_words \in BOOLEAN :
          stages' = IF has_words THEN Append(stages, "SANITIZED") ELSE stages
    /\ lyrics_file' = stages'
    /\ StartOp("align_and_split_lyrics")
    /\ main_pc' = "align_split"
    /\ UNCHANGED <<Flags, Rest>>

\* main, lines 172-177: the refinement failed, the raw transcription is written
FallbackSaved ==
    /\ main_pc = "gemini_processing" /\ op_result = "fallback" /\ FallbackValue(op) = "None"
    /\ lyrics_file' = stages
    /\ main_pc' = "render"
    /\ UNCHANGED <<Flags, stages, opVars, Rest>>

\* main, lines 166-169: the list with the oracle's words, clamped by
\* _clamp_words, is written
AlignSplitSaved ==
    /\ main_pc = "align_split" /\ op_result = "accepted"
    /\ stages' = Append(stages, "CLAMPED")
    /\ lyrics_file' = stages'
    /\ main_pc' = "render"
    /\ UNCHANGED <<Flags, opVars, Rest>>

\* main, lines 166-169: align_and_split_lyrics returned the list it was given
AlignSplitKept ==
    /\ main_pc = "align_split" /\ op_result = "fallback" /\ FallbackValue(op) = "lyrics_segments"
    /\ lyrics_file' = stages
    /\ main_pc' = "render"
    /\ UNCHANGED <<Flags, stages, opVars, Rest>>

\* nemo_align command line, line 452 with lines 311-332: align_with_nemo
\* writes the segments of _map_words_to_lines
NemoAligned ==
    /\ main_pc = "nemo_cli" /\ audio_exists
    /\ stages' = <<"RAW">>
    /\ lyrics_file' = stages'
    /\ main_pc' = "done"
    /\ UNCHANGED <<Flags, opVars, Rest>>

\* nemo_align command line, lines 456-459: align_with_nemo returned None
NemoFailed ==
    /\ main_pc = "nemo_cli"
    /\ StartOp("full_pipeline_gemini")
    /\ main_pc' = "nemo_fallback"
    /\ UNCHANGED <<Flags, stages, lyrics_file, Rest>>

\* nemo_align command line, lines 460-463
NemoFallbackSaved ==
    /\ main_pc = "nemo_fallback" /\ op_result = "accepted"
    /\ stages' = <<"RAW", "CLAMPED">>
    /\ lyrics_file' = stages'
    /\ main_pc' = "done"
    /\ UNCHANGED <<Flags, opVars, Rest>>

\* nemo_align command line, lines 464-466
NemoFallbackFailed ==
    /\ main_pc = "nemo_fallback" /\ op_result = "fallback" /\ FallbackValue(op) = "None"
    /\ main_pc' = "done"
    /\ UNCHANGED <<Flags, stages, lyrics_file, opVars, Rest>>

\* gemini_align command line, lines 823-833: a stored list is loaded and
\* handed to align_lyrics_with_gemini
AlignCliLoaded ==
    /\ main_pc = "align_cli"
    /\ stages' = <<"LOADED">>
    /\ StartOp("align_lyrics_with_gemini")
    /\ main_pc' = "align_cli_run"
    /\ UNCHANGED <<Flags, lyrics_file, Rest>>

\* gemini_align command line, lines 835-837: whatever was returned is written
AlignCliSaved ==
    /\ main_pc = "align_cli_run" /\ op_result \in {"accepted", "fallback"}
    /\ stages' = IF op_result = "accepted" THEN Append(stages, "CLAMPED") ELSE stages
    /\ lyrics_file' = stages'
    /\ main_pc' = "done"
    /\ UNCHANGED <<Flags, opVars, Rest>>

NextPipeline ==
    \/ Attempt \/ AttemptBlocks \/ AllModelsFailed
    \/ MainNoAudio \/ MainFastPath \/ FastPathSaved \/ FastPathFailed \/ MainStandardPath
    \/ TranscriptionFailed \/ Transcribed \/ RefinedSaved \/ FallbackSaved
    \/ AlignSplitSaved \/ AlignSplitKept
    \/ NemoAligned \/ NemoFailed \/ NemoFallbackSaved \/ NemoFallbackFailed
    \/ AlignCliLoaded \/ AlignCliSaved

SpecPipeline == InitPipeline /\ [][NextPipeline]_vars

\* the program keeps running: a step that can be taken is taken
SpecPipelineLive == SpecPipeline /\ WF_vars(NextPipeline)

----------------------------------------------------------------------------
(* Claims about the entry points and the backend lists *)

\* C17: every list written as final output by main or by the nemo_align
\* command line has gone through RAW, CLAMPED, SANITIZED, in that order.
C17_EveryStagePassed ==
    (entry \in {"main", "nemo_cli"} /\ lyrics_file # <<>>) =>
        lyrics_file = <<"RAW", "CLAMPED", "SANITIZED">>

\* C20: an operation tries the backends of its list in list order, each at
\* most once, with at most one attempt per backend of the list; it stops
\* at the first accepted response; and it returns its fallback value only
\* without any attempt (no key, no audio) or after every backend failed.
C20_BackendsTriedInOrder ==
    op \in Operations =>
        /\ Len(tried) <= Len(Models(op))
        /\ \A i \in 1..Len(tried) : tried[i].model = Models(op)[i]
        /\ \A i \in 1..Len(tried), j \in 1..Len(tried) : tried[i].model = tried[j].model => i = j
        /\ \A i \in 1..(Len(tried) - 1) : tried[i].response # "accepted"
        /\ op_result = "accepted" <=> (Len(tried) > 0 /\ tried[Len(tried)].response = "accepted")
        /\ op_result = "fallback" =>
               /\ Len(tried) \in {0, Len(Models(op))}
               /\ Len(tried) = 0 <=> (~api_key \/ (NeedsAudio(op) /\ ~audio_exists))

\* the first backend failed and the second one was accepted
C20_Witness ==
    /\ op = "refine_lyrics_with_gemini"
    /\ op_result = "accepted"
    /\ Len(tried) = 2
    /\ tried[1].response = "http_error"
    /\ tried[2].model = "gemini-2.0-flash-exp"

\* C21: every oracle-backed operation that was called eventually returns,
\* also when a backend never answers.
C21_EveryOperationReturns ==
    (op_result = "pending") ~> (op_result \in {"accepted", "fallback"})

\* C22: a run of main or of the nemo_align command line on an existing
\* audio file never ends without a segment list written, whatever fails.
C22_NoRunEndsWithoutOutput ==
    (entry \in {"main", "nemo_cli"} /\ audio_exists /\ main_pc \in {"done", "render"}) =>
        lyrics_file # <<>>

----------------------------------------------------------------------------
(* Claims about align_with_nemo's input checks *)

\* the lyrics have no character of the vocabulary other than spaces
OnlySpacesInVocabulary ==
    LET text == JoinSpace(CleanLineChars(original_lines))
    IN \A k \in 1..Len(text) : text[k] # " " => text[k] \notin vocab

\* C23: when the lyrics are empty or have no character of the vocabulary
\* except word-separating spaces, align_with_nemo does not reach the
\* aligner and returns None.
C23_NothingToAlignFails ==
    (nemo_pc # "call" /\ OnlySpacesInVocabulary) =>
        /\ nemo_pc = "none"
        /\ Len(FullCharList(original_lines, vocab)) = 0

----------------------------------------------------------------------------
(* process_single_song run by concurrent workers                           *)
(* (src/batch_processor.py 115-245, src/main.py 20-64 and 109-182).        *)
(* Every step is one file-system operation or one run of code that touches *)
(* no shared file; workers are processes and interleave between steps.     *)

Workers == {"w1", "w2"}

Songs == {"s1", "s2"}

NotBatch == <<ctcVars, sanVars, expVars, clampVars, lineVars, fullVars, opVars, mainVars>>

InitBatch ==
    /\ song_name \in [Workers -> Songs]
    /\ worker_pc = [w \in Workers |-> "start"]
    /\ saves_left = [w \in Workers |-> 0]
    /\ lock_file = [s \in Songs |-> "none"]
    /\ lock_stale = [s \in Songs |-> FALSE]
    /\ lyrics_json \in [Songs -> {"absent", "complete"}]
    /\ public_dir = "none"
    /\ video_output = [s \in Songs |-> "none"]
    /\ IdleCtc /\ IdleSan /\ IdleExp /\ IdleClamp /\ IdleLines /\ IdleFull /\ IdleMain

\* _acquire_lock up to the write: lock_file.exists(), and for a lock older
\* than 30 minutes lock_file.unlink()  (lines 115-128)
AcquireLock(w) ==
    LET s == song_name[w]
    IN /\ worker_pc[w] = "start"
       /\ IF lock_file[s] # "none" /\ ~lock_stale[s]
          THEN /\ worker_pc' = [worker_pc EXCEPT ![w] = "skipped"]
               /\ UNCHANGED <<lock_file, lock_stale>>
          ELSE /\ worker_pc' = [worker_pc EXCEPT ![w] = "locking"]
               /\ lock_file' = [lock_file EXCEPT ![s] = "none"]
               /\ lock_stale' = [lock_stale EXCEPT ![s] = FALSE]
       /\ UNCHANGED <<song_name, saves_left, lyrics_json, public_dir, video_output, NotBatch>>

\* _acquire_lock: lock_file.write_text(...)  (line 130), then the worker
\* is in the try block
WriteLock(w) ==
    /\ worker_pc[w] = "locking"
    /\ lock_file' = [lock_file EXCEPT ![song_name[w]] = w]
    /\ lock_stale' = [lock_stale EXCEPT ![song_name[w]] = FALSE]
    /\ worker_pc' = [worker_pc EXCEPT ![w] = "main"]
    /\ UNCHANGED <<song_name, saves_left, lyrics_json, public_dir, video_output, NotBatch>>

\* time.time() - st_mtime exceeds 1800 while the lock file is there
\* (lines 123-124)
LockAges(s) ==
    /\ lock_file[s] # "none" /\ ~lock_stale[s]
    /\ lock_stale' = [lock_stale EXCEPT ![s] = TRUE]
    /\ UNCHANGED <<song_name, worker_pc, saves_left, lock_file, lyrics_json, public_dir, video_output, NotBatch>>

\* main up to the first write: lyrics.json exists and is kept (main, lines
\* 111-112), or the lyrics are produced and written once (fallback, or
\* align_and_split_lyrics raising) or twice, or the transcription fails
\* and main returns (lines 140-142)
MainProcessesLyrics(w) ==
    /\ worker_pc[w] = "main"
    /\ IF lyrics_json[song_name[w]] # "absent"
       THEN /\ worker_pc' = [worker_pc EXCEPT ![w] = "render"]
            /\ UNCHANGED saves_left
       ELSE \E n \in 0..2 :
               /\ saves_left' = [saves_left EXCEPT ![w] = n]
               /\ worker_pc' = [worker_pc EXCEPT ![w] = IF n = 0 THEN "finally" ELSE "save"]
    /\ UNCHANGED <<song_name, lock_file, lock_stale, lyrics_json, public_dir, video_output, NotBatch>>

\* open(lyrics_file, 'w'): the file is created or cut to length 0
\* (main, lines 160, 167, 175)
OpenLyrics(w) ==
    /\ worker_pc[w] = "save"
    /\ lyrics_json' = [lyrics_json EXCEPT ![song_name[w]] = "truncated"]
    /\ worker_pc' = [worker_pc EXCEPT ![w] = "dump"]
    /\ UNCHANGED <<song_name, saves_left, lock_file, lock_stale, public_dir, video_output, NotBatch>>

\* json.dump: a buffer of the text reaches the file
DumpLyrics(w) ==
    /\ worker_pc[w] = "dump"
    /\ lyrics_json[song_name[w]] = "truncated"
    /\ lyrics_json' = [lyrics_json EXCEPT ![song_name[w]] = "partial"]
    /\ UNCHANGED <<song_name, worker_pc, saves_left, lock_file, lock_stale, public_dir, video_output, NotBatch>>

\* the with block ends: the rest of the text is written and the file closed
CloseLyrics(w) ==
    /\ worker_pc[w] = "dump"
    /\ lyrics_json' = [lyrics_json EXCEPT ![song_name[w]] = "complete"]
    /\ saves_left' = [saves_left EXCEPT ![w] = saves_left[w] - 1]
    /\ worker_pc' = [worker_pc EXCEPT ![w] = IF saves_left[w] > 1 THEN "save" ELSE "render"]
    /\ UNCHANGED <<song_name, lock_file, lock_stale, public_dir, video_output, NotBatch>>

\* an exception inside the try block (unreadable lyrics text, a failing
\* write, a failing copy): the except clause writes error.log
\* (process_single_song, lines 224-242)
Raises(w) ==
    /\ worker_pc[w] \in {"main", "save", "dump", "render"}
    /\ worker_pc' = [worker_pc EXCEPT ![w] = "finally"]
    /\ UNCHANGED <<song_name, saves_left, lock_file, lock_stale, lyrics_json, public_dir, video_output, NotBatch>>

\* render_video: the song's audio and lyrics are copied to video/public
\* (main, lines 27-39)
CopyAssets(w) ==
    /\ worker_pc[w] = "render"
    /\ public_dir' = song_name[w]
    /\ worker_pc' = [worker_pc EXCEPT ![w] = "rendering"]
    /\ UNCHANGED <<song_name, saves_left, lock_file, lock_stale, lyrics_json, video_output, NotBatch>>

\* render_video: Remotion renders what is in video/public  (main, lines 47-58)
RenderVideo(w) ==
    /\ worker_pc[w] = "rendering"
    /\ video_output' = [video_output EXCEPT ![song_name[w]] = public_dir]
    /\ worker_pc' = [worker_pc EXCEPT ![w] = "finally"]
    /\ UNCHANGED <<song_name, saves_left, lock_file, lock_stale, lyrics_json, public_dir, NotBatch>>

\* finally: _release_lock removes the song's lock file, whoever wrote it
\* (lines 134-138, 244-245)
ReleaseLock(w) ==
    /\ worker_pc[w] = "finally"
    /\ lock_file' = [lock_file EXCEPT ![song_name[w]] = "none"]
    /\ lock_stale' = [lock_stale EXCEPT ![song_name[w]] = FALSE]
    /\ worker_pc' = [worker_pc EXCEPT ![w] = "done"]
    /\ UNCHANGED <<song_name, saves_left, lyrics_json, public_dir, video_output, NotBatch>>

NextBatch ==
    \/ \E w \in Workers :
          \/ AcquireLock(w) \/ WriteLock(w) \/ MainProcessesLyrics(w)
          \/ OpenLyrics(w) \/ DumpLyrics(w) \/ CloseLyrics(w) \/ Raises(w)
          \/ CopyAssets(w) \/ RenderVideo(w) \/ ReleaseLock(w)
    \/ \E s \in Songs : LockAges(s)

SpecBatch == InitBatch /\ [][NextBatch]_vars

----------------------------------------------------------------------------
(* Claims about concurrent workers *)

\* the worker is between acquiring the lock and the finally block
InPipeline(w) == worker_pc[w] \in {"main", "save", "dump", "render", "rendering"}

\* C24: two workers on different songs do not touch each other's files:
\* a song's video is rendered from that song's own audio and lyrics.
C24_SongsAreIsolated ==
    (\A v, w \in Workers : v # w => song_name[v] # song_name[w]) =>
        \A s \in Songs : video_output[s] \in {"none", s}

\* C25: at most one worker at a time is inside the pipeline for a song.
C25_OneWorkerPerSong ==
    \A v, w \in Workers :
        (v # w /\ song_name[v] = song_name[w]) => ~(InPipeline(v) /\ InPipeline(w))

\* C26: lyrics.json is never there cut short or half written.
C26_LyricsFileNeverPartial ==
    \A s \in Songs : lyrics_json[s] \in {"absent", "complete"}

----------------------------------------------------------------------------
(* Claims about the backtracked state path of _ctc_forced_align *)

\* the path ends in L-1 or L-2, the one with the higher final score, L-1 on ties
EndsInBestTerminal(p, lp, tg) ==
    LET ex == ExpandedTargets(tg)
        T == NumFrames(lp)
        L == Cardinality(DOMAIN ex)
        last == AlphaRows(lp, ex, T - 1)[T]
    IN /\ p[T - 1] \in {L - 1, L - 2}
       /\ last[p[T - 1]] >= last[L - 1] /\ last[p[T - 1]] >= last[L - 2]
       /\ last[L - 1] = last[L - 2] => p[T - 1] = L - 1

\* per frame the state changes by +0, +1 or +2, by +2 only between different tokens
StepsAreTransitions(p, ex, T) ==
    \A t \in 0..(T - 2) : p[t + 1] \in Successors(ex, p[t])

\* between the frames of two adjacent equal tokens there is a blank frame
EqualTokensSeparated(p, ex, T) ==
    \A t, u \in 0..(T - 1) :
        (t < u /\ p[t] % 2 = 1 /\ p[u] = p[t] + 2 /\ ex[p[t]] = ex[p[u]]) =>
            \E v \in (t + 1)..(u - 1) : p[v] = p[t] + 1

\* C27 (as claimed): for every input with non-empty targets the path has
\* length T, starts in state 0 or 1, ends in the better terminal state and
\* moves by the transition rule.
C27_PathValidForEveryInput ==
    Returned =>
        /\ IsValidPath(path, ExpandedTargets(targets), NumFrames(log_probs))
        /\ EndsInBestTerminal(path, log_probs, targets)
        /\ EqualTokensSeparated(path, ExpandedTargets(targets), NumFrames(log_probs))

\* C27 (amended): the path has length T, ends in the better terminal state
\* and moves by the transition rule, so equal adjacent tokens are separated
\* by a blank frame; it starts in state 0 or 1 exactly when a valid path
\* exists, and otherwise stays in state L-1 on every frame.
C27_PathFollowsTransitions ==
    Returned =>
        LET ex == ExpandedTargets(targets)
            T == NumFrames(log_probs)
        IN /\ DOMAIN path = 0..(T - 1)
           /\ EndsInBestTerminal(path, log_probs, targets)
           /\ StepsAreTransitions(path, ex, T)
           /\ EqualTokensSeparated(path, ex, T)
           /\ IF ValidPathScores(log_probs, targets) # {}
              THEN path[0] \in {0, 1}
              ELSE \A t \in 0..(T - 1) : path[t] = 2 * NumTargets(targets)

\* two equal tokens on three frames: token, blank, token
C27_Witness ==
    /\ Returned
    /\ NumTargets(targets) = 2
    /\ targets[0] = targets[1]
    /\ NumFrames(log_probs) = 3
    /\ path = [t \in 0..2 |-> t + 1]

----------------------------------------------------------------------------
(* Claims about the words of the sub-segments *)

\* the words the oracle gave for the source segment
OracleGaveWords == IF data[1].seg_index = 0 THEN data[1].words ELSE <<>>

\* the word lies inside the window of its sub-segment
WordInside(w, sub) ==
    /\ sub.start <= w.start /\ w.start <= sub.end
    /\ sub.start <= w.end /\ w.end <= sub.end

\* C28: after a split into n > 1 sub-segments by align_and_split_lyrics the
\* first sub-segment carries the oracle's words, clamped into its window,
\* when the oracle gave any; every other sub-segment carries one word per
\* token of the text, at evenly spaced starts, inside its window.
C28_SubSegmentWords ==
    (exp_pc = "split" /\ ClampedCount > 1) =>
        \A k \in 1..Len(expanded) :
            LET sub == expanded[k]
                n == Len(lyrics_segments[1].text)
            IN IF k = 1 /\ Len(OracleGaveWords) > 0
               THEN /\ Len(sub.words) = Len(OracleGaveWords)
                    /\ \A j \in 1..Len(sub.words) : WordInside(sub.words[j], sub)
               ELSE /\ Len(sub.words) = n
                    /\ \A j \in 1..Len(sub.words) :
                           /\ sub.words[j].start = Round2(sub.start * n + (j - 1) * (sub.end - sub.start), n)
                           /\ WordInside(sub.words[j], sub)

----------------------------------------------------------------------------
(* Claims about the distribution of the aligned words over the lines *)

RECURSIVE WordsUpTo(_, _)
\* the words of the first k segments, in order
WordsUpTo(segs, k) == IF k = 0 THEN <<>> ELSE WordsUpTo(segs, k - 1) \o segs[k].words

RECURSIVE ExpectedUpTo(_, _)
\* n_1 + ... + n_k, n_i the number of words of clean line i
ExpectedUpTo(lines, k) == IF k = 0 THEN 0 ELSE ExpectedUpTo(lines, k - 1) + Len(CleanWords(lines[k]))

\* C29: one segment per line, in line order; the segments' words are the
\* first min(|all_words|, n_1 + ... + n_k) aligned words, in order, each
\* once; line i gets at most n_i of them, and fewer only when the aligned
\* words are used up.
C29_WordsPartitionedInOrder ==
    nemo_pc = "returned" =>
        LET K == Len(original_lines)
            given == WordsUpTo(segments, K)
        IN /\ Len(segments) = K
           /\ \A k \in 1..K : segments[k].text = original_lines[k]
           /\ Len(given) = Min2(Len(aligned_words), ExpectedUpTo(original_lines, K))
           /\ \A i \in 1..Len(given) :
                  /\ given[i].start = Round2(aligned_words[i].start, 1)
                  /\ given[i].end = Round2(aligned_words[i].end, 1)
           /\ \A k \in 1..K :
                  /\ Len(segments[k].words) <= Len(CleanWords(original_lines[k]))
                  /\ Len(segments[k].words) < Len(CleanWords(original_lines[k])) =>
                         Len(WordsUpTo(segments, k)) = Len(aligned_words)

\* three lines expecting four words, three words aligned: the second line
\* takes the second and third word and the last line is left without
C29_Witness ==
    /\ nemo_pc = "returned"
    /\ Len(original_lines) = 3
    /\ ExpectedUpTo(original_lines, 3) = 4
    /\ Len(aligned_words) = 3
    /\ Len(segments[1].words) = 1
    /\ Len(segments[2].words) = 2
    /\ Len(segments[3].words) = 0

----------------------------------------------------------------------------
(* Claims about align_and_split_lyrics when every backend fails *)

\* C30: when every backend fails, the returned list is the input list: no
\* segment's words, start, end or text was changed.
C30_FailureLeavesInputUntouched ==
    exp_pc = "kept" => expanded = lyrics_segments

====
